---- MODULE Spec2Model ----
(***************************************************************************)
(* Model of src/t.py: the ProjectSetup orchestration script.               *)
(*                                                                         *)
(* One main thread runs __main__ -> ProjectSetup.__init__ -> setup_project *)
(* (_create_template, _merge_files, _install_dependencies,                 *)
(* _start_application).  The environment is: the three child processes     *)
(* (template generator, installer, dev server), which write lines to a     *)
(* pipe and exit with a code; the user, who may raise KeyboardInterrupt in *)
(* the main thread; the file system, on which opens may fail.  Two helper  *)
(* threads exist: the install spinner (non-daemon) and the dev-server      *)
(* monitor_output thread (daemon).                                         *)
(*                                                                         *)
(* A line of text is a sequence of tokens; " " is whitespace and           *)
(* "http://h" is a token that contains the substring "http://".  A pipe    *)
(* holds chunks [text, nl]: nl = FALSE is a last line written without a    *)
(* trailing newline.  A child writes whole lines, except possibly its last *)
(* write.  Child processes are followed only while the program runs.       *)
(***************************************************************************)
EXTENDS Integers, Sequences, FiniteSets, TLC

\* ---------------------------------------------------------------- bounds
MaxOut == 2        \* chunks one child writes to its pipe
MaxFiles == 2      \* entries of config['files'] (overlay specification)
MaxChars == 3      \* characters of file content in config['files'], in all

\* ------------------------------------------------------- input universes
ProjectTypes == {"React", "Vite", "Flask", "Express", "Django"}
ExitCodes == {0, 1, 2}
PlainLine == <<"txt">>
UrlLine == <<" ", "Local:", " ", "http://h">>
BlankLine == <<>>
LineSet == {PlainLine, UrlLine, BlankLine}
Phases == {"template", "install", "server"}
Steps == {"template", "merge", "install", "start"}
NoCode == -1       \* Popen.returncode is None while the child runs

VARIABLES
    cfgState,        \* the configuration file: "ok", "missing", "malformed"
    project_type,    \* config['project_type']
    dependencies,    \* config.get('dependencies')
    files,           \* config['files'] as a sequence of [path, content]
    pc,              \* position of the main thread
    child,           \* child[p]: the process spawned for phase p
    produced,        \* chunks the active child has written so far (history)
    echoed,          \* lines printed by the active monitor loop (history)
    output_buffer,   \* _monitor_process.output_buffer, one entry per append
    monPhase,        \* the phase whose child _monitor_process watches
    monResult,       \* what _monitor_process returned: [success, output]
    thr,             \* position of the monitor_output thread
    spin,            \* position of the _show_spinner thread
    spinEvent,       \* the threading.Event handed to the spinner
    urlActions,      \* "Application running at" announcements (history)
    errorLog,        \* lines appended to setup_errors.log
    stderrLog,       \* messages _log_error printed to stderr
    fs,              \* files under the project directory: location -> content
    fileIdx,         \* entries of config['files'] already written
    stepState,       \* per step of setup_project: "none", "running", "ok", "fail"
    interruptedAt,   \* pc at which KeyboardInterrupt was raised, or "none"
    exitCode,        \* exit status of the program, NoCode while running
    emptyRead,       \* the last readline gave no line while the child was alive
                     \* and no sleep has followed it yet
    hotSpin          \* a readline was started right after such a read (history)

cfgVars == <<cfgState, project_type, dependencies, files>>
procVars == <<child, produced>>
monVars == <<echoed, output_buffer, monPhase, monResult>>
thrVars == <<thr, spin, spinEvent>>
logVars == <<errorLog, stderrLog>>
fsVars == <<fs, fileIdx>>
histVars == <<stepState, interruptedAt>>
idleVars == <<emptyRead, hotSpin>>
vars == <<cfgState, project_type, dependencies, files, pc, child, produced,
          echoed, output_buffer, monPhase, monResult, thr, spin, spinEvent,
          urlActions, errorLog, stderrLog, fs, fileIdx, stepState,
          interruptedAt, exitCode, emptyRead, hotSpin>>

\* ------------------------------------------------------------ text helpers
IsSpace(tok) == tok = " "

\* "http://" in s, for one token
TokHasScheme(tok) == tok = "http://h"

\* "http://" in line
HasUrl(line) == \E i \in 1..Len(line) : TokHasScheme(line[i])

RECURSIVE LStrip(_)
LStrip(line) ==
    IF line = <<>> THEN <<>>
    ELSE IF IsSpace(Head(line)) THEN LStrip(Tail(line))
    ELSE line

RECURSIVE RStrip(_)
RStrip(line) ==
    IF line = <<>> THEN <<>>
    ELSE IF IsSpace(line[Len(line)]) THEN RStrip(SubSeq(line, 1, Len(line) - 1))
    ELSE line

\* str.strip() of one line (the trailing newline goes with the whitespace)
Strip(line) == RStrip(LStrip(line))

RECURSIVE DropBlankHead(_)
DropBlankHead(ls) ==
    IF ls = <<>> THEN <<>>
    ELSE IF Strip(Head(ls)) = <<>> THEN DropBlankHead(Tail(ls))
    ELSE ls

RECURSIVE DropBlankTail(_)
DropBlankTail(ls) ==
    IF ls = <<>> THEN <<>>
    ELSE IF Strip(ls[Len(ls)]) = <<>> THEN DropBlankTail(SubSeq(ls, 1, Len(ls) - 1))
    ELSE ls

\* str.strip() of a text of several lines: whitespace and newlines are
\* removed at both ends only; the result is one text, given by its lines.
StripText(ls) ==
    LET core == DropBlankTail(DropBlankHead(ls))
        n == Len(core)
    IN  IF n = 0 THEN << <<>> >>
        ELSE IF n = 1 THEN << Strip(core[1]) >>
        ELSE << LStrip(core[1]) >> \o SubSeq(core, 2, n - 1) \o << RStrip(core[n]) >>

RECURSIVE Flatten(_)
\* '\n'.join(output_buffer), given by its lines
Flatten(entries) ==
    IF entries = <<>> THEN <<>>
    ELSE Head(entries) \o Flatten(Tail(entries))

Texts(chunks) == [i \in 1..Len(chunks) |-> chunks[i].text]

\* output.split('http://')[-1].split()[0]: what follows the last "http://"
AfterScheme(tok) == IF tok = "http://h" THEN "h" ELSE tok

RECURSIVE LastUrlRest(_)
LastUrlRest(ls) ==
    LET last == ls[Len(ls)]
        idx == {i \in 1..Len(last) : TokHasScheme(last[i])}
    IN  IF idx # {} THEN << AfterScheme(last[CHOOSE i \in idx : \A j \in idx : j <= i]) >>
        ELSE LastUrlRest(SubSeq(ls, 1, Len(ls) - 1))

\* --------------------------------------------------------- command tables
TemplateCommand(type) ==
    CASE type = "React" -> "npm create vite --template react"
      [] type = "Vite" -> "npm create vite --template react-ts"
      [] type = "Flask" -> "python -m venv"
      [] type = "Express" -> "npm init -y"
      [] OTHER -> "None"

InstallCommand(type) ==
    IF type = "Flask" THEN "venv/Scripts/pip install" ELSE "npm install"

StartCommand(type) ==
    IF type = "Flask" THEN "venv/Scripts/python -m flask run"
    ELSE IF type \in {"React", "Vite"} THEN "npm run dev"
    ELSE "node index.js"

\* ------------------------------------------------------------ child model
NoChild ==
    [st |-> "none", cmd |-> "None", code |-> NoCode, pipe |-> <<>>, term |-> FALSE,
     eof |-> FALSE]

Spawned(cmd) ==
    [st |-> "alive", cmd |-> cmd, code |-> NoCode, pipe |-> <<>>, term |-> FALSE,
     eof |-> FALSE]

\* process.poll() is not None
Polled(p) == child[p].st = "exited"

\* a readline that waits for a line and never sees the end of file
CanReadLineNoEof(p) ==
    IF child[p].pipe = <<>> THEN FALSE
    ELSE Head(child[p].pipe).nl

\* process.stdout.readline() can return: a whole line is buffered, or the
\* pipe is at end of file (the child has exited or has closed its stdout)
CanReadLine(p) ==
    IF child[p].st = "exited" \/ child[p].eof THEN TRUE
    ELSE IF child[p].pipe = <<>> THEN FALSE
    ELSE Head(child[p].pipe).nl

\* a monitor that takes every finished child for a success
SuccessOfAnyExit(code) == code # NoCode

\* success = process.returncode == 0
SuccessOf(code) == code = 0

\* a _log_error that drops the message
LogAppendDropped(log, msg, writable) == log

\* _log_error: append to the log, or report on stderr when the open fails
LogAppend(log, msg, writable) == IF writable THEN Append(log, msg) ELSE log

StderrAppend(err, msg, writable) == IF writable THEN err ELSE Append(err, msg)

\* ------------------------------------------------------------ file overlay
Chars == {";", "\\", "n"}
PathSet == {<<"a">>, <<"src", "b">>, <<"src", "..", "a">>}
TemplateContent == <<"T">>
EmptyTree == [l \in {} |-> <<>>]
TemplateTrees ==
    {EmptyTree, [l \in {<<"a">>, <<"node_modules">>} |-> TemplateContent]}

RECURSIVE DecodeOk(_)
\* content.encode('utf-8').decode('unicode_escape') does not raise:
\* no backslash at the end of the string
DecodeOk(s) ==
    IF s = <<>> THEN TRUE
    ELSE IF Head(s) = "\\" THEN Len(s) >= 2 /\ DecodeOk(SubSeq(s, 3, Len(s)))
    ELSE DecodeOk(Tail(s))

RECURSIVE Decode(_)
\* the unicode_escape codec: \n is a newline, \\ a backslash, an unknown
\* escape is kept as written
Decode(s) ==
    IF s = <<>> THEN <<>>
    ELSE IF Head(s) = "\\" /\ Len(s) >= 2
         THEN (IF s[2] = "n" THEN <<"\n">>
               ELSE IF s[2] = "\\" THEN <<"\\">>
               ELSE <<"\\", s[2]>>) \o Decode(SubSeq(s, 3, Len(s)))
    ELSE <<Head(s)>> \o Decode(Tail(s))

RECURSIVE ReplaceSemi(_)
\* decoded_content.replace(';', ';\n')
ReplaceSemi(s) ==
    IF s = <<>> THEN <<>>
    ELSE IF Head(s) = ";" THEN <<";", "\n">> \o ReplaceSemi(Tail(s))
    ELSE <<Head(s)>> \o ReplaceSemi(Tail(s))

\* an overlay that forgets the formatting pass
FormattedContentNoPass(content) == Decode(content)

\* decoded_content.replace(';', ';\n') of the decoded content
FormattedContent(content) == ReplaceSemi(Decode(content))

RECURSIVE Resolve(_)
\* the file that project_dir / rel_path names, relative to project_dir:
\* the file system resolves "x/.." to the directory that holds x
Resolve(path) ==
    IF path = <<>> THEN <<>>
    ELSE LET init == Resolve(SubSeq(path, 1, Len(path) - 1))
             last == path[Len(path)]
         IN  IF last = ".." /\ init # <<>> /\ init[Len(init)] # ".."
             THEN SubSeq(init, 1, Len(init) - 1)
             ELSE Append(init, last)

WriteFile(tree, loc, text) ==
    [l \in DOMAIN tree \cup {loc} |-> IF l = loc THEN text ELSE tree[l]]

\* ------------------------------------------------------------------ Init
MainFiles ==
    {<<>>, <<[path |-> <<"a">>, content |-> <<";">>]>>,
     <<[path |-> <<"a">>, content |-> <<"\\">>],
       [path |-> <<"src", "b">>, content |-> <<";">>]>>}

NoResult == [success |-> FALSE, output |-> <<>>]

ProcessInit ==
    /\ pc = "boot"
    /\ child = [p \in Phases |-> NoChild]
    /\ produced = <<>>
    /\ echoed = <<>>
    /\ output_buffer = <<>>
    /\ monPhase = "none"
    /\ monResult = NoResult
    /\ thr = "none"
    /\ spin = "none"
    /\ spinEvent = FALSE
    /\ urlActions = <<>>
    /\ errorLog = <<>>
    /\ stderrLog = <<>>
    /\ fs = EmptyTree
    /\ fileIdx = 0
    /\ stepState = [s \in Steps |-> "none"]
    /\ interruptedAt = "none"
    /\ exitCode = NoCode
    /\ emptyRead = FALSE
    /\ hotSpin = FALSE

Init ==
    /\ cfgState \in {"ok", "missing", "malformed"}
    /\ project_type \in ProjectTypes
    /\ dependencies \in {<<>>, <<"dep">>}
    /\ files \in MainFiles
    /\ cfgState # "ok" => project_type = "React" /\ dependencies = <<>> /\ files = <<>>
    /\ ProcessInit

\* ------------------------------------------------------------- __main__
\* a __main__ without the exists() test: the run goes on
ConfigMissingIgnored ==
    /\ pc = "boot"
    /\ cfgState = "missing"
    /\ pc' = "create_template"
    /\ UNCHANGED <<cfgVars, idleVars, procVars, monVars, thrVars, urlActions, logVars, fsVars,
                   histVars, exitCode>>

\* Path(config_path).exists() is False: print and sys.exit(1)
ConfigMissing ==
    /\ pc = "boot"
    /\ cfgState = "missing"
    /\ pc' = "exiting"
    /\ exitCode' = 1
    /\ UNCHANGED <<cfgVars, idleVars, procVars, monVars, thrVars, urlActions, logVars, fsVars, histVars>>

\* ProjectSetup(config_path): json.load raises on a malformed file and the
\* exception is not caught in __main__, so the interpreter exits with 1
Construct ==
    /\ pc = "boot"
    /\ cfgState # "missing"
    /\ IF cfgState = "malformed"
       THEN pc' = "exiting" /\ exitCode' = 1
       ELSE pc' = "create_template" /\ exitCode' = exitCode
    /\ UNCHANGED <<cfgVars, idleVars, procVars, monVars, thrVars, urlActions, logVars, fsVars, histVars>>

\* ------------------------------------------------------- setup_project
\* a setup_project that forgets the call of _merge_files
AfterTemplateSkipsMerge(ok) == IF ok THEN "install" ELSE "fail"

AfterTemplate(ok) == IF ok THEN "merge" ELSE "fail"

\* a setup_project that ignores the result of _install_dependencies
AfterInstallIgnored(ok) == "start_app"

AfterInstall(ok) == IF ok THEN "start_app" ELSE "fail"

StepIs(s, v) == stepState' = [stepState EXCEPT ![s] = v]

\* _run_command raised inside Popen: _log_error, return None
SpawnFailed(step, writable) ==
    /\ errorLog' = LogAppend(errorLog, <<"Command failed", step>>, writable)
    /\ stderrLog' = StderrAppend(stderrLog, <<"Command failed", step>>, writable)
    /\ StepIs(step, "fail")
    /\ pc' = "fail"

\* a _create_template that starts the generator and does not wait for it
CreateTemplateNoWait ==
    /\ pc = "create_template"
    /\ TemplateCommand(project_type) # "None"
    /\ child' = [child EXCEPT !["template"] = Spawned(TemplateCommand(project_type))]
    /\ produced' = <<>>
    /\ StepIs("template", "ok")
    /\ pc' = AfterTemplate(TRUE)
    /\ UNCHANGED <<cfgVars, idleVars, monVars, thrVars, urlActions, logVars, fsVars,
                   interruptedAt, exitCode>>

\* _create_template up to the call of _monitor_process
CreateTemplate ==
    /\ pc = "create_template"
    /\ IF TemplateCommand(project_type) = "None"
       THEN /\ StepIs("template", "fail")
            /\ pc' = "fail"
            /\ UNCHANGED <<procVars, monVars, logVars>>
       ELSE \E spawned \in BOOLEAN, writable \in BOOLEAN :
              IF spawned
              THEN /\ child' = [child EXCEPT !["template"] = Spawned(TemplateCommand(project_type))]
                   /\ produced' = <<>>
                   /\ echoed' = <<>>
                   /\ output_buffer' = <<>>
                   /\ monPhase' = "template"
                   /\ monResult' = NoResult
                   /\ StepIs("template", "running")
                   /\ pc' = "mon_read"
                   /\ UNCHANGED logVars
              ELSE /\ SpawnFailed("template", writable)
                   /\ UNCHANGED <<procVars, monVars>>
    /\ UNCHANGED <<cfgVars, idleVars, thrVars, urlActions, fsVars, interruptedAt, exitCode>>

\* ---------------------------------------------------- _monitor_process
\* output = process.stdout.readline(); if output: append and print
MonRead ==
    /\ pc = "mon_read"
    /\ CanReadLine(monPhase)
    /\ LET pipe == child[monPhase].pipe
       IN  IF pipe # <<>>
           THEN /\ output_buffer' = Append(output_buffer, << Strip(Head(pipe).text) >>)
                /\ echoed' = Append(echoed, Strip(Head(pipe).text))
                /\ child' = [child EXCEPT ![monPhase].pipe = Tail(pipe)]
           ELSE UNCHANGED <<output_buffer, echoed, child>>
    /\ emptyRead' = (child[monPhase].pipe = <<>> /\ child[monPhase].st = "alive")
    /\ hotSpin' = (hotSpin \/ emptyRead)
    /\ pc' = "mon_poll"
    /\ UNCHANGED <<cfgVars, produced, monPhase, monResult, thrVars, urlActions, logVars,
                   fsVars, histVars, exitCode>>

\* if process.poll() is not None: drain, break, return; else sleep(0.1)
MonPoll ==
    /\ pc = "mon_poll"
    /\ IF Polled(monPhase)
       THEN \E rest \in {StripText(Texts(child[monPhase].pipe))} :
            \E buf \in {IF child[monPhase].pipe # <<>> THEN Append(output_buffer, rest)
                         ELSE output_buffer} :
                /\ output_buffer' = buf
                /\ echoed' = IF child[monPhase].pipe # <<>> THEN echoed \o rest ELSE echoed
                /\ child' = [child EXCEPT ![monPhase].pipe = <<>>]
                /\ monResult' = [success |-> SuccessOf(child[monPhase].code),
                                 output |-> Flatten(buf)]
                /\ pc' = "mon_ret"
       ELSE /\ pc' = "mon_read"
            /\ UNCHANGED <<output_buffer, echoed, child, monResult>>
    /\ emptyRead' = FALSE
    /\ hotSpin' = hotSpin
    /\ UNCHANGED <<cfgVars, produced, monPhase, thrVars, urlActions, logVars,
                   fsVars, histVars, exitCode>>

\* return self._monitor_process(process, ...)[0], then the test in setup_project
TemplateReturn ==
    /\ pc = "mon_ret"
    /\ monPhase = "template"
    /\ StepIs("template", IF monResult.success THEN "ok" ELSE "fail")
    /\ pc' = AfterTemplate(monResult.success)
    /\ produced' = <<>>
    /\ echoed' = <<>>
    /\ output_buffer' = <<>>
    /\ monPhase' = "none"
    /\ monResult' = NoResult
    /\ UNCHANGED <<cfgVars, idleVars, child, thrVars, urlActions, logVars, fsVars, interruptedAt, exitCode>>

\* --------------------------------------------------------- _merge_files
\* except Exception in setup_project: _log_error("Critical error"), return False
CriticalError(step, writable) ==
    /\ errorLog' = LogAppend(errorLog, <<"Critical error", step>>, writable)
    /\ stderrLog' = StderrAppend(stderrLog, <<"Critical error", step>>, writable)
    /\ StepIs(step, "fail")
    /\ pc' = "fail"

\* self.project_dir.mkdir(parents=True, exist_ok=True)
MergeBegin ==
    /\ pc = "merge"
    /\ fileIdx' = 0
    /\ StepIs("merge", "running")
    /\ pc' = "merge_files"
    /\ UNCHANGED <<cfgVars, idleVars, procVars, monVars, thrVars, urlActions, logVars, fs,
                   interruptedAt, exitCode>>

\* one iteration of the loop over config['files']
MergeFile ==
    /\ pc = "merge_files"
    /\ fileIdx < Len(files)
    /\ LET entry == files[fileIdx + 1]
       IN  IF DecodeOk(entry.content)
           THEN /\ fs' = WriteFile(fs, Resolve(entry.path), FormattedContent(entry.content))
                /\ fileIdx' = fileIdx + 1
                /\ UNCHANGED <<pc, logVars, stepState>>
           ELSE /\ \E writable \in BOOLEAN : CriticalError("merge", writable)
                /\ UNCHANGED fsVars
    /\ UNCHANGED <<cfgVars, idleVars, procVars, monVars, thrVars, urlActions, interruptedAt, exitCode>>

\* mkdir or open raises OSError
MergeRaise ==
    /\ pc = "merge_files"
    /\ fileIdx < Len(files)
    /\ \E writable \in BOOLEAN : CriticalError("merge", writable)
    /\ UNCHANGED <<cfgVars, idleVars, procVars, monVars, thrVars, urlActions, fsVars, interruptedAt, exitCode>>

MergeDone ==
    /\ pc = "merge_files"
    /\ fileIdx = Len(files)
    /\ StepIs("merge", "ok")
    /\ pc' = "install"
    /\ UNCHANGED <<cfgVars, idleVars, procVars, monVars, thrVars, urlActions, logVars, fsVars,
                   interruptedAt, exitCode>>

\* ------------------------------------------------ _install_dependencies
\* an installer that runs whatever the configuration declares
NeedsInstallAlways(deps) == TRUE

\* not (not self.config.get('dependencies'))
NeedsInstall(deps) == deps # <<>>

\* up to the call of _monitor_process: the dependencies test, the spawn,
\* the start of the spinner thread
InstallBegin ==
    /\ pc = "install"
    /\ IF ~NeedsInstall(dependencies)
       THEN /\ StepIs("install", "ok")
            /\ pc' = "start_app"
            /\ UNCHANGED <<procVars, monVars, thrVars, logVars>>
       ELSE \E spawned \in BOOLEAN, writable \in BOOLEAN :
              IF spawned
              THEN /\ child' = [child EXCEPT !["install"] = Spawned(InstallCommand(project_type))]
                   /\ produced' = <<>>
                   /\ echoed' = <<>>
                   /\ output_buffer' = <<>>
                   /\ monPhase' = "install"
                   /\ monResult' = NoResult
                   /\ spin' = "running"
                   /\ spinEvent' = FALSE
                   /\ StepIs("install", "running")
                   /\ pc' = "mon_read"
                   /\ UNCHANGED <<thr, logVars>>
              ELSE /\ SpawnFailed("install", writable)
                   /\ UNCHANGED <<procVars, monVars, thrVars>>
    /\ UNCHANGED <<cfgVars, idleVars, urlActions, fsVars, interruptedAt, exitCode>>

\* spinner.set() after _monitor_process returned
InstallSet ==
    /\ pc = "mon_ret"
    /\ monPhase = "install"
    /\ spinEvent' = TRUE
    /\ pc' = "inst_join"
    /\ UNCHANGED <<cfgVars, idleVars, procVars, monVars, thr, spin, urlActions, logVars, fsVars,
                   histVars, exitCode>>

\* spinner_thread.join(), the "http://" announcement, return success
InstallJoin ==
    /\ pc = "inst_join"
    /\ spin = "stopped"
    /\ urlActions' =
         IF \E i \in 1..Len(monResult.output) : HasUrl(monResult.output[i])
         THEN Append(urlActions, [by |-> "install", arg |-> LastUrlRest(monResult.output)])
         ELSE urlActions
    /\ StepIs("install", IF monResult.success THEN "ok" ELSE "fail")
    /\ pc' = AfterInstall(monResult.success)
    /\ produced' = <<>>
    /\ echoed' = <<>>
    /\ output_buffer' = <<>>
    /\ monPhase' = "none"
    /\ monResult' = NoResult
    /\ UNCHANGED <<cfgVars, idleVars, child, thrVars, logVars, fsVars, interruptedAt, exitCode>>

\* _show_spinner: the loop ends once stop_event.is_set()
SpinnerStop ==
    /\ spin = "running"
    /\ spinEvent
    /\ spin' = "stopped"
    /\ UNCHANGED <<cfgVars, idleVars, pc, procVars, monVars, thr, spinEvent, urlActions, logVars,
                   fsVars, histVars, exitCode>>

\* --------------------------------------------------- _start_application
\* self.server_process = self._run_command(cmd, cwd=self.project_dir)
StartApplication ==
    /\ pc = "start_app"
    /\ \E spawned \in BOOLEAN, writable \in BOOLEAN :
         IF spawned
         THEN /\ child' = [child EXCEPT !["server"] = Spawned(StartCommand(project_type))]
              /\ produced' = <<>>
              /\ echoed' = <<>>
              /\ StepIs("start", "running")
              /\ pc' = "start_thread"
              /\ UNCHANGED logVars
         ELSE /\ SpawnFailed("start", writable)
              /\ UNCHANGED <<procVars, echoed>>
    /\ UNCHANGED <<cfgVars, idleVars, output_buffer, monPhase, monResult, thrVars, urlActions,
                   fsVars, interruptedAt, exitCode>>

\* a _start_application that starts monitor_output and then also runs
\* _monitor_process on the dev server
StartThreadAndMonitor ==
    /\ pc = "start_thread"
    /\ thr' = "read"
    /\ monPhase' = "server"
    /\ pc' = "mon_read"
    /\ UNCHANGED <<cfgVars, idleVars, procVars, echoed, output_buffer, monResult, spin,
                   spinEvent, urlActions, logVars, fsVars, histVars, exitCode>>

\* threading.Thread(target=monitor_output, daemon=True).start()
StartThread ==
    /\ pc = "start_thread"
    /\ thr' = "read"
    /\ pc' = "wait"
    /\ UNCHANGED <<cfgVars, idleVars, procVars, monVars, spin, spinEvent, urlActions, logVars,
                   fsVars, histVars, exitCode>>

\* monitor_output: output = readline(); if output: print, announce
ThrRead ==
    /\ thr = "read"
    /\ CanReadLine("server")
    /\ LET pipe == child["server"].pipe
       IN  IF pipe # <<>>
           THEN /\ echoed' = Append(echoed, Strip(Head(pipe).text))
                /\ child' = [child EXCEPT !["server"].pipe = Tail(pipe)]
                /\ urlActions' =
                     IF HasUrl(Head(pipe).text)
                     THEN Append(urlActions, [by |-> "server", arg |-> <<Strip(Head(pipe).text)>>])
                     ELSE urlActions
           ELSE UNCHANGED <<echoed, child, urlActions>>
    /\ emptyRead' = (child["server"].pipe = <<>> /\ child["server"].st = "alive")
    /\ hotSpin' = (hotSpin \/ emptyRead)
    /\ thr' = "poll"
    /\ UNCHANGED <<cfgVars, pc, produced, output_buffer, monPhase, monResult, spin,
                   spinEvent, logVars, fsVars, histVars, exitCode>>

\* a monitor_output that leaves its loop after the first read
ThrPollAlwaysBreaks ==
    /\ thr = "poll"
    /\ thr' = "done"
    /\ UNCHANGED <<cfgVars, idleVars, pc, procVars, monVars, spin, spinEvent, urlActions,
                   logVars, fsVars, histVars, exitCode>>

\* monitor_output: if self.server_process.poll() is not None: break; the
\* loop has no sleep
ThrPoll ==
    /\ thr = "poll"
    /\ thr' = IF Polled("server") THEN "done" ELSE "read"
    /\ UNCHANGED <<cfgVars, idleVars, pc, procVars, monVars, spin, spinEvent, urlActions, logVars,
                   fsVars, histVars, exitCode>>

\* while self.server_process.poll() is None: time.sleep(1) -- the loop ends
WaitExit ==
    /\ pc = "wait"
    /\ Polled("server")
    /\ StepIs("start", "ok")
    /\ pc' = "success"
    /\ UNCHANGED <<cfgVars, idleVars, procVars, monVars, thrVars, urlActions, logVars, fsVars,
                   interruptedAt, exitCode>>

\* except KeyboardInterrupt: self.server_process.terminate(); return True
InterruptWait ==
    /\ pc = "wait"
    /\ interruptedAt = "none"
    /\ child' = [child EXCEPT !["server"].term = TRUE]
    /\ interruptedAt' = "wait"
    /\ StepIs("start", "ok")
    /\ pc' = "success"
    /\ UNCHANGED <<cfgVars, idleVars, produced, monVars, thrVars, urlActions, logVars, fsVars, exitCode>>

\* ------------------------------------------------------ __main__, the end
InterruptiblePcs ==
    {"create_template", "mon_read", "mon_poll", "mon_ret", "merge", "merge_files",
     "install", "inst_join", "start_app", "start_thread"}

\* KeyboardInterrupt anywhere else under the try of __main__: it is not an
\* Exception, so setup_project lets it through; __main__ calls sys.exit(1)
Interrupt ==
    /\ pc \in InterruptiblePcs
    /\ interruptedAt = "none"
    /\ interruptedAt' = pc
    /\ exitCode' = 1
    /\ pc' = "exiting"
    /\ UNCHANGED <<cfgVars, idleVars, procVars, monVars, thrVars, urlActions, logVars, fsVars, stepState>>

\* setup.setup_project() returned True: the program ends with status 0
SetupSucceeded ==
    /\ pc = "success"
    /\ exitCode' = 0
    /\ pc' = "exiting"
    /\ UNCHANGED <<cfgVars, idleVars, procVars, monVars, thrVars, urlActions, logVars, fsVars, histVars>>

\* setup.setup_project() returned False: sys.exit(1)
SetupFailed ==
    /\ pc = "fail"
    /\ exitCode' = 1
    /\ pc' = "exiting"
    /\ UNCHANGED <<cfgVars, idleVars, procVars, monVars, thrVars, urlActions, logVars, fsVars, histVars>>

\* the interpreter waits for the non-daemon spinner thread and ends the
\* daemon monitor_output thread with the process
ProcessEnd ==
    /\ pc = "exiting"
    /\ spin # "running"
    /\ pc' = "exited"
    /\ thr' = IF thr \in {"read", "poll"} THEN "killed" ELSE thr
    /\ UNCHANGED <<cfgVars, idleVars, procVars, monVars, spin, spinEvent, urlActions, logVars,
                   fsVars, histVars, exitCode>>

\* ----------------------------------------------------- the child processes
Running == pc # "exited"

\* the child writes one line (or, as its last write, a line without newline)
ChildWrite(p, line, nl) ==
    /\ Running
    /\ child[p].st = "alive"
    /\ ~child[p].eof
    /\ Len(produced) < MaxOut
    /\ IF produced = <<>> THEN TRUE ELSE produced[Len(produced)].nl
    /\ IF nl THEN TRUE ELSE line # <<>>
    /\ child' = [child EXCEPT ![p].pipe = Append(@, [text |-> line, nl |-> nl])]
    /\ produced' = Append(produced, [text |-> line, nl |-> nl])
    /\ UNCHANGED <<cfgVars, idleVars, pc, monVars, thrVars, urlActions, logVars, fsVars, histVars, exitCode>>

\* the child exits; the template generator has left its files in the tree
ChildExit(p, code) ==
    /\ Running
    /\ child[p].st = "alive"
    /\ child' = [child EXCEPT ![p].st = "exited", ![p].code = code, ![p].eof = TRUE]
    /\ IF p = "template" THEN fs' \in TemplateTrees ELSE fs' = fs
    /\ UNCHANGED <<cfgVars, idleVars, pc, produced, monVars, thrVars, urlActions, logVars, fileIdx,
                   histVars, exitCode>>

\* the child closes its stdout and runs on: the pipe is at end of file
ChildClose(p) ==
    /\ Running
    /\ child[p].st = "alive"
    /\ ~child[p].eof
    /\ IF produced = <<>> THEN TRUE ELSE produced[Len(produced)].nl
    /\ child' = [child EXCEPT ![p].eof = TRUE]
    /\ UNCHANGED <<cfgVars, idleVars, pc, produced, monVars, thrVars, urlActions, logVars,
                   fsVars, histVars, exitCode>>

Environment ==
    \/ \E p \in Phases, line \in LineSet, nl \in BOOLEAN : ChildWrite(p, line, nl)
    \/ \E p \in Phases : ChildClose(p)
    \/ \E p \in Phases, code \in ExitCodes : ChildExit(p, code)

Next ==
    \/ ConfigMissing
    \/ Construct
    \/ CreateTemplate
    \/ MonRead
    \/ MonPoll
    \/ TemplateReturn
    \/ MergeBegin
    \/ MergeFile
    \/ MergeRaise
    \/ MergeDone
    \/ InstallBegin
    \/ InstallSet
    \/ InstallJoin
    \/ SpinnerStop
    \/ StartApplication
    \/ StartThread
    \/ ThrRead
    \/ ThrPoll
    \/ WaitExit
    \/ InterruptWait
    \/ Interrupt
    \/ SetupSucceeded
    \/ SetupFailed
    \/ ProcessEnd
    \/ Environment

Spec == Init /\ [][Next]_vars

\* ------------------------------------------- the overlay on its own
RECURSIVE SeqsUpTo(_, _)
SeqsUpTo(S, n) ==
    IF n = 0 THEN {<<>>}
    ELSE LET shorter == SeqsUpTo(S, n - 1)
         IN  shorter \cup {Append(q, x) : q \in shorter, x \in S}

RECURSIVE MappingsOf(_, _, _)
\* mappings of at most n entries with at most budget characters of content
\* in all; no relative path is a key twice
MappingsOf(n, budget, used) ==
    IF n = 0 THEN {<<>>}
    ELSE {<<>>} \cup
         UNION { UNION { { <<[path |-> p, content |-> c]>> \o m :
                             m \in MappingsOf(n - 1, budget - Len(c), used \cup {p}) } :
                         c \in SeqsUpTo(Chars, budget) } :
                 p \in PathSet \ used }

FileMappings == MappingsOf(MaxFiles, MaxChars, {})

\* the state in which setup_project calls _merge_files: the template
\* generator has exited with 0 and left its tree
MergeInit ==
    /\ cfgState = "ok"
    /\ project_type = "React"
    /\ dependencies = <<>>
    /\ files \in FileMappings
    /\ pc = "merge"
    /\ child = [p \in Phases |->
                  IF p = "template"
                  THEN [Spawned(TemplateCommand("React")) EXCEPT !.st = "exited", !.code = 0]
                  ELSE NoChild]
    /\ produced = <<>>
    /\ echoed = <<>>
    /\ output_buffer = <<>>
    /\ monPhase = "none"
    /\ monResult = NoResult
    /\ thr = "none"
    /\ spin = "none"
    /\ spinEvent = FALSE
    /\ urlActions = <<>>
    /\ errorLog = <<>>
    /\ stderrLog = <<>>
    /\ fs \in TemplateTrees
    /\ fileIdx = 0
    /\ stepState = [s \in Steps |-> IF s = "template" THEN "ok" ELSE "none"]
    /\ interruptedAt = "none"
    /\ exitCode = NoCode
    /\ emptyRead = FALSE
    /\ hotSpin = FALSE

MergeNext ==
    \/ MergeBegin
    \/ MergeFile
    \/ MergeRaise
    \/ MergeDone

SpecMerge == MergeInit /\ [][MergeNext]_vars

\* =================================================================
\* Properties
\* =================================================================
Range(q) == {q[i] : i \in 1..Len(q)}

Ended == pc \in {"exiting", "exited"}

ServerActions == SelectSeq(urlActions, LAMBDA a : a.by = "server")

\* the URL a line announces
ExtractUrl(line) == SelectSeq(line, TokHasScheme)

ChildOf(s) == IF s = "start" THEN "server" ELSE s

C2_FirstMatchOpensItsUrlOnce ==
    (thr # "none" /\ (\E k \in 1..Len(echoed) : HasUrl(echoed[k])))
    => LET first == CHOOSE i \in 1..Len(echoed) :
                       HasUrl(echoed[i]) /\ \A j \in 1..(i - 1) : ~HasUrl(echoed[j])
       IN  ServerActions = << [by |-> "server", arg |-> <<ExtractUrl(echoed[first])>>] >>

\* C3: when the user interrupts the wait of the server-run phase, the
\* dev-server child gets a terminate request and the program exits with 1.
C3_CancelTerminatesAndExitsOne ==
    (interruptedAt = "wait" /\ Ended) => (child["server"].term /\ exitCode = 1)

\* C4: _monitor_process returns only after the child has exited, and the
\* success it returns is true exactly when the exit code is 0.
C4_SuccessIffExitZero ==
    pc = "mon_ret" =>
        /\ child[monPhase].st = "exited"
        /\ monResult.success <=> (child[monPhase].code = 0)

C4_Witness ==
    /\ pc = "mon_ret"
    /\ child[monPhase].code = 2
    /\ ~monResult.success
    /\ Len(produced) = MaxOut

\* C5: when a monitor loop has stopped, the lines it echoed (and the
\* transcript it returns), in order, are the child's full output.
C5_EchoEqualsOutput ==
    /\ pc = "mon_ret" => echoed = Texts(produced) /\ monResult.output = Texts(produced)
    /\ thr = "done" => echoed = Texts(produced)

\* C6: a failed step stops the run: after a failed template creation no
\* overlay, installation or server launch happens; after a failed overlay
\* or installation the server is never launched; setup_project returns
\* False and the program exits with 1.
C6_FailureShortCircuits ==
    /\ stepState["template"] = "fail" =>
          /\ \A s \in {"merge", "install", "start"} : stepState[s] = "none"
          /\ fileIdx = 0
          /\ child["install"].st = "none" /\ child["server"].st = "none"
    /\ stepState["merge"] = "fail" =>
          /\ stepState["install"] = "none" /\ stepState["start"] = "none"
          /\ child["install"].st = "none" /\ child["server"].st = "none"
    /\ stepState["install"] = "fail" =>
          /\ stepState["start"] = "none"
          /\ child["server"].st = "none"
    /\ (\E s \in Steps : stepState[s] = "fail") =>
          /\ pc \in {"fail", "exiting", "exited"}
          /\ Ended => exitCode = 1

C6_Witness ==
    /\ stepState["install"] = "fail"
    /\ child["install"].code = 1
    /\ pc = "exited"

\* C7: every external command that started and exited with a non-zero code
\* leaves an entry in the error log and its phase is reported as failed.
C7_NonZeroExitLogged ==
    \A s \in {"template", "install", "start"} :
        (/\ child[ChildOf(s)].st = "exited"
         /\ child[ChildOf(s)].code # 0
         /\ interruptedAt = "none"
         /\ Ended)
        => (errorLog # <<>> /\ stepState[s] = "fail")

\* a command of step s could not be spawned
SpawnFailure(s) ==
    /\ stepState[s] = "fail"
    /\ child[ChildOf(s)].st = "none"
    /\ s = "template" => TemplateCommand(project_type) # "None"

C9_MissingConfigNoSideEffect ==
    cfgState = "missing" =>
        /\ \A p \in Phases : child[p].st = "none"
        /\ \A s \in Steps : stepState[s] = "none"
        /\ fs = EmptyTree
        /\ errorLog = <<>> /\ stderrLog = <<>>
        /\ pc \in {"boot", "exiting", "exited"}
        /\ Ended => exitCode = 1

C9_Witness == cfgState = "missing" /\ pc = "exited" /\ exitCode = 1

RECURSIVE Overlaid(_)
\* what a file is to hold: the content with its escapes decoded and a
\* newline after each ';', read off the raw content left to right
Overlaid(s) ==
    IF s = <<>> THEN <<>>
    ELSE IF Head(s) = ";" THEN <<";", "\n">> \o Overlaid(Tail(s))
    ELSE IF Head(s) = "\\" /\ Len(s) >= 2
         THEN (CASE s[2] = "n" -> <<"\n">>
                 [] s[2] = "\\" -> <<"\\">>
                 [] s[2] = ";" -> <<"\\", ";", "\n">>) \o Overlaid(SubSeq(s, 3, Len(s)))
    ELSE <<Head(s)>> \o Overlaid(Tail(s))

Locations == {Resolve(files[i].path) : i \in 1..Len(files)}

PhaseOrder ==
    /\ stepState["merge"] # "none" => stepState["template"] = "ok"
    /\ stepState["install"] # "none" => stepState["merge"] = "ok"
    /\ stepState["start"] # "none" => stepState["install"] = "ok"

\* entries of config['files'] the overlay loop has taken up
Attempted == IF stepState["merge"] = "fail" THEN fileIdx + 1 ELSE fileIdx

\* C11 (as stated): the steps run in the order template, overlay, install,
\* start, each after the one before has finished, and after a successful
\* template creation the overlay is attempted for every configured file.
C11_OrderAndEveryFileAttempted ==
    /\ PhaseOrder
    /\ (stepState["template"] = "ok" /\ Ended /\ interruptedAt = "none")
       => Attempted = Len(files)

\* C11 (amended): the steps run in that order, each after the one before
\* has succeeded; after a successful template creation the overlay is
\* begun and writes the configured files in order up to the first one that
\* raises; the files after that one are not attempted.
C11_OrderAndOverlayUntilFirstFailure ==
    /\ PhaseOrder
    /\ (stepState["template"] = "ok" /\ stepState["merge"] = "none")
       => (pc = "merge" \/ interruptedAt = "merge")
    /\ stepState["merge"] = "ok" => fileIdx = Len(files)
    /\ stepState["merge"] = "fail" => fileIdx < Len(files)
    /\ stepState["merge"] # "none" =>
          /\ \A i \in 1..fileIdx : Resolve(files[i].path) \in DOMAIN fs
          /\ \A i \in (fileIdx + 1)..Len(files) :
                Resolve(files[i].path) \in DOMAIN fs
                => fs[Resolve(files[i].path)] = TemplateContent

C11_Witness ==
    /\ stepState["merge"] = "fail"
    /\ Len(files) = 2
    /\ fileIdx = 0
    /\ pc = "exited"

\* the installed-dependencies marker: a package cache in the project tree
HasMarker == <<"node_modules">> \in DOMAIN fs

\* C12 (as stated): the install command is never spawned when no
\* dependencies are declared or when the project has an installed marker;
\* the install step then succeeds.
C12_NoSpawnWithoutDepsOrWithMarker ==
    (stepState["install"] # "none" /\ (dependencies = <<>> \/ HasMarker))
    => (child["install"].st = "none" /\ stepState["install"] = "ok")

\* C12 (amended): the install command is never spawned when no dependencies
\* are declared; the install step then succeeds and the run goes on to the
\* application start.  With dependencies declared the command is always
\* spawned, marker or not.
C12_NoSpawnWithoutDeps ==
    stepState["install"] # "none" =>
        IF dependencies = <<>>
        THEN /\ child["install"].st = "none"
             /\ stepState["install"] = "ok"
             /\ \/ pc = "start_app"
                \/ stepState["start"] # "none"
                \/ interruptedAt = "start_app"
        ELSE child["install"].st # "none" \/ SpawnFailure("install")

C12_Witness ==
    /\ dependencies = <<>>
    /\ HasMarker
    /\ stepState["install"] = "ok"
    /\ child["server"].st = "alive"

\* ------------------------------------------------------------- liveness
\* the threads of the program keep running: the main thread in its monitor
\* loop and at the end of __main__, the monitor_output thread, the spinner
\* thread, the interpreter at exit.  Nothing is assumed of the children or
\* of the user.
MainThreadStep == MonRead \/ MonPoll \/ SetupSucceeded \/ SetupFailed

MonitorThreadStep == ThrRead \/ ThrPoll

Fairness ==
    /\ WF_vars(MainThreadStep)
    /\ WF_vars(MonitorThreadStep)
    /\ WF_vars(SpinnerStop)
    /\ WF_vars(ProcessEnd)

\* the runs followed for liveness: one project type, dependencies
\* declared, one file to overlay
LiveInit ==
    /\ Init
    /\ project_type = "React"
    /\ cfgState = "ok" => dependencies # <<>> /\ files = <<[path |-> <<"a">>, content |-> <<";">>]>>

SpecLive == LiveInit /\ [][Next]_vars /\ Fairness

InMonitorLoop == pc \in {"mon_read", "mon_poll"}

InterruptedInMonitor == interruptedAt \in {"mon_read", "mon_poll"}

\* C13 (as stated): once the child of a bounded invocation has exited,
\* _monitor_process returns; the program never ends with the loop left
\* unfinished on an exited child.
C13_MonitorAlwaysReturns ==
    ~(Ended /\ InterruptedInMonitor /\ child[monPhase].st = "exited")

\* C13 (amended): once the child of a bounded invocation has exited,
\* _monitor_process returns its pair, unless a KeyboardInterrupt ends it
\* first; it never waits forever on a child that has exited.
C13_MonitorReturnsUnlessInterrupted ==
    (InMonitorLoop /\ Polled(monPhase)) ~> (pc = "mon_ret" \/ InterruptedInMonitor)

C13_Witness ==
    /\ pc = "mon_ret"
    /\ monPhase = "install"
    /\ child["install"].code = 0
    /\ child["install"].pipe = <<>>
    /\ Len(produced) = MaxOut

Cancelled == interruptedAt = "wait"

\* C14 (as stated): after terminate on a user cancellation the background
\* monitor task is not forcibly killed: it is never ended by anything but
\* its own break.
C14_MonitorNeverKilled == Cancelled => thr # "killed"

\* C14 (amended): after terminate on a user cancellation the primary thread
\* neither joins nor stops monitor_output; the daemon thread leaves its loop
\* on its own only once it has observed the exit of the child, it is ended
\* by nothing but the exit of the interpreter, and one of the two eventually
\* happens.
C14_MonitorStopsOrEndsWithProcess ==
    /\ [](Cancelled /\ thr = "done" => Polled("server"))
    /\ [](Cancelled /\ thr = "killed" => pc = "exited")
    /\ [](Cancelled /\ pc # "exited" => thr \in {"read", "poll", "done"})
    /\ (Cancelled ~> thr \in {"done", "killed"})

C14_Witness ==
    /\ Cancelled
    /\ child["server"].term
    /\ thr = "done"
    /\ pc = "exited"

\* C15: in every monitor loop, when the child is observed to have exited,
\* all output still unread is read and echoed before the monitor stops:
\* no monitor has stopped with output left in the pipe of its child.
C15_StoppedMonitorLeftNothingUnread ==
    /\ pc = "mon_ret" => child[monPhase].pipe = <<>>
    /\ thr = "done" => child["server"].pipe = <<>>

AliveChildren == {p \in Phases : child[p].st = "alive"}

\* C16: at any time at most one spawned child is alive: the template
\* generator has exited before the install child is spawned, and both have
\* exited (or the install child was never needed) before the dev server is
\* spawned.
C16_AtMostOneChildAlive ==
    /\ Cardinality(AliveChildren) <= 1
    /\ child["install"].st # "none" => child["template"].st = "exited"
    /\ child["server"].st # "none" =>
         /\ child["template"].st = "exited"
         /\ child["install"].st \in {"none", "exited"}

C16_Witness ==
    /\ child["template"].st = "exited"
    /\ child["install"].st = "exited"
    /\ child["server"].st = "alive"
    /\ thr \in {"read", "poll"}

ThreadMonitors == thr \in {"read", "poll"}

\* C17: at most one monitor loop reads the output of the active child
\* (_monitor_process on the primary thread in the bounded phases,
\* monitor_output alone for the dev server), and terminate has been issued
\* on a handle only for the dev server, by the primary thread, on a user
\* cancellation.
C17_OneReaderAndTerminateOnlyOnCancel ==
    /\ ~(InMonitorLoop /\ ThreadMonitors)
    /\ InMonitorLoop => monPhase \in {"template", "install"}
    /\ thr # "none" => pc \in {"wait", "success", "exiting", "exited"}
    /\ \A p \in Phases : child[p].term => p = "server" /\ Cancelled

C17_Witness ==
    /\ Cancelled
    /\ child["server"].term
    /\ child["server"].st = "alive"
    /\ ThreadMonitors
    /\ pc = "success"

\* C18: in every monitor loop a read that yields no line while the child is
\* alive is followed by a bounded idle wait before the next read: no read
\* has been started right after such a read.
C18_NeverReadsAgainWithoutWaiting == ~hotSpin

InstallMonitoring == monPhase = "install" /\ pc \in {"mon_read", "mon_poll", "mon_ret"}

\* C19: on every path by which _install_dependencies is left after the
\* install child was spawned, the stop event of the spinner is set: once
\* the spinner was started and the phase is no longer monitoring its child,
\* the event is set, and the program does not end with the spinner running.
C19_SpinnerStoppedAfterInstall ==
    /\ spin # "none" /\ ~InstallMonitoring => spinEvent
    /\ Ended => spin # "running"

====
